---- MODULE Spec2Model ----
(***************************************************************************)
(* Model of the dispatch engine of the policy admission controller:        *)
(* Admission.admit, Admission.handleAdmissionReview and                    *)
(* Admission.getResourceForReview (src/cmd/policy-admission/main.go, the   *)
(* "package server" half of the file).  One review is processed at a time; *)
(* the metrics registry is the only state that survives a request.         *)
(* The kubernetes event created on a denial (createPodDeniedEvent) writes  *)
(* to the orchestrator only and is left out.                               *)
(***************************************************************************)
EXTENDS Integers, Sequences, FiniteSets, TLC

\* ------------------------------------------------------------- bounds ----
MaxProviders == 2
MaxErrs == 2
MaxRequests == 1

\* ---------------------------------------------------------- constants ----
\* names of the in-tree authorizers, in the order of newAuthorizer's switch
AuthorizerNames ==
    <<"domains", "images", "imagelist", "kubecertmanager",
      "namespaces", "securitycontext", "services", "tolerations">>

\* api.FilterIngresses, api.FilterNamespace, api.FilterPods, api.FilterServices
FilterIngresses == "Ingress"
FilterNamespace == "Namespace"
FilterPods == "Pod"
FilterServices == "Service"

actionDenied == "deny"
actionAccepted == "accept"
StatusForbidden == 403

\* field.ErrorType values a provider can put in a violation
ErrorTypeInternal == "Internal"
ErrorTypeForbidden == "Forbidden"
ErrorTypes == {ErrorTypeInternal, ErrorTypeForbidden}

\* ------------------------------------------------------------- inputs ----
ReviewKinds == {"Pod", "Ingress", "DaemonSet"}
ProviderKinds == {"Pod", "Ingress"}
Namespaces == {"default", "kube-system"}
IgnoreLists == {<<>>, <<"kube-system">>}

\* the field.Error values the provider called `name` can return
Violation(name, t) ==
    [Type |-> t, Field |-> name, BadValue |-> "bad", Detail |-> t]

ErrorLists(name) ==
    UNION {[1..n -> {Violation(name, t) : t \in ErrorTypes}] : n \in 0..MaxErrs}

ProviderConfigs(i) ==
    [Name : {AuthorizerNames[i]}, Kind : ProviderKinds,
     IgnoreNamespaces : IgnoreLists, IgnoreOnFailure : BOOLEAN]

ProviderLists ==
    UNION {{f \in [1..n -> UNION {ProviderConfigs(i) : i \in 1..n}] :
               \A i \in 1..n : f[i] \in ProviderConfigs(i)} : n \in 1..MaxProviders}

\* review.Request.Object.Raw: bytes that do not decode, or an encoded object
\* that carries a namespace of its own, which is never the review's
EmbeddedNamespaces == {"staging"}
RawObjects ==
    {[Decodes |-> FALSE, Namespace |-> ""]} \cup
    {[Decodes |-> TRUE, Namespace |-> n] : n \in EmbeddedNamespaces}

Reviews == [Kind : ReviewKinds, Namespace : Namespaces, Object : RawObjects]

\* -------------------------------------------------------------- state ----
VARIABLES
    providers,      \* c.providers, fixed by New
    pc,             \* "idle", "loop", "admit", "done"
    review,         \* review.Request of the request being served
    response,       \* review.Response
    object,         \* the decoded object (its namespace)
    idx,            \* position of the range loop over c.providers
    result,         \* *admissionResult of handleAdmissionReview
    returned,       \* how admit ended: "none", "nil", "error", "panic"
    admissionTotalMetric,
    admissionErrorMetric,
    admissionAuthorizerActionMetric,
    admissionAuthorizerLatencyMetric,
    errs,           \* the list the last Admit call returned, and whose it was
    clock,          \* logical clock: 0 when a timer is started, one tick per Admit
    now,            \* time.Now() taken before Admit
    deferred,       \* argument of the deferred Observe call
    calls,          \* probe: Admit calls per provider position, this request
    filterOnCalled, \* probe: FilterOn has been called in this request
    outcomes,       \* probe: how each provider's Admit ended, this request
    admitObjects,   \* probe: namespaces of the objects handed to Admit
    observed,       \* probe: the latency observation of the last Admit call
    admitTotal,     \* probe: Admit calls per provider name, all requests
    snapshot,       \* probe: the metrics as they were when the request began
    requests        \* number of requests received

vars == <<providers, pc, review, response, object, idx, result, returned,
          admissionTotalMetric, admissionErrorMetric,
          admissionAuthorizerActionMetric, admissionAuthorizerLatencyMetric,
          errs, clock, now, deferred, calls, filterOnCalled, outcomes,
          admitObjects, observed, admitTotal, snapshot, requests>>

metrics == <<admissionTotalMetric, admissionErrorMetric,
             admissionAuthorizerActionMetric, admissionAuthorizerLatencyMetric>>

probes == <<calls, filterOnCalled, outcomes, admitObjects, observed, admitTotal>>

\* ------------------------------------------------------------ helpers ----
NoReview == [Kind |-> "", Namespace |-> "", Object |-> [Decodes |-> FALSE, Namespace |-> ""]]
NoResponse ==
    [Set |-> FALSE, Allowed |-> FALSE, Code |-> 0, Reason |-> "",
     Status |-> "", Message |-> <<>>]
NoObject == [Decoded |-> FALSE, Namespace |-> ""]
NoResult == [Allowed |-> FALSE, Message |-> <<>>]
NoErrs == [position |-> 0, list |-> <<>>]
NotCalled == [status |-> "none", types |-> {}]
NoObservation == [position |-> 0, value |-> 0, start |-> 0, end |-> 0]

Names == {providers[i].Name : i \in DOMAIN providers}

\* Contained with a scan that starts one element late
ContainedFromSecond(value, list) ==
    \E i \in DOMAIN list : i > 1 /\ list[i] = value

\* utils.Contained(value, list)
Contained(value, list) == \E i \in DOMAIN list : list[i] = value

\* the kind check with the comparison turned round
KindSame(provider, kind) == provider.Kind = kind

\* `provider.FilterOn().Kind != kind`
KindDiffers(provider, kind) == provider.Kind # kind

\* getResourceForReview with no default case in its switch
getResourceAnyKind(kind, rv) ==
    IF rv.Object.Decodes
    THEN [err |-> FALSE,
          object |-> [Decoded |-> TRUE, Namespace |-> rv.Object.Namespace]]
    ELSE [err |-> TRUE, object |-> [Decoded |-> FALSE, Namespace |-> ""]]

\* the switch of getResourceForReview, then json.Unmarshal
getResourceForReview(kind, rv) ==
    IF kind \in {FilterIngresses, FilterNamespace, FilterPods, FilterServices}
    THEN IF rv.Object.Decodes
         THEN [err |-> FALSE,
               object |-> [Decoded |-> TRUE, Namespace |-> rv.Object.Namespace]]
         ELSE [err |-> TRUE, object |-> NoObject]
    ELSE [err |-> TRUE, object |-> NoObject]

\* the namespace of the decoded object left as it was encoded
KeepNamespace(obj, namespace) == obj

\* object.SetNamespace(review.Request.Namespace)
SetNamespace(obj, namespace) == [obj EXCEPT !.Namespace = namespace]

\* time.Since(now).Seconds(), evaluated where the defer statement stands
Since(t, start) == t - start

\* the loop that sets skipme
skipme(list, provider) ==
    \E k \in DOMAIN list :
        list[k].Type = ErrorTypeInternal /\ provider.IgnoreOnFailure

\* fmt.Sprintf("%s=%v : %s", x.Field, x.BadValue, x.Detail)
Sprintf(x) == <<x.Field, "=", x.BadValue, " : ", x.Detail>>

\* strings.Join(reasons, sep)
RECURSIVE Join(_, _)
Join(reasons, sep) ==
    IF Len(reasons) = 0 THEN <<>>
    ELSE IF Len(reasons) = 1 THEN reasons[1]
    ELSE reasons[1] \o <<sep>> \o Join(Tail(reasons), sep)

reasons(list) == [k \in DOMAIN list |-> Sprintf(list[k])]

\* Counter.Inc() on a labelled child
Inc(metric, label) == [metric EXCEPT ![label] = @ + 1]

\* Histogram.Observe(v) on the child of `name`
Observe(metric, name, v) ==
    [metric EXCEPT ![name] = [count |-> @.count + 1, sum |-> @.sum + v]]

\* --------------------------------------------------------------- Init ----
Init ==
    /\ providers \in ProviderLists
    /\ pc = "idle"
    /\ review = NoReview
    /\ response = NoResponse
    /\ object = NoObject
    /\ idx = 0
    /\ result = NoResult
    /\ returned = "none"
    /\ admissionTotalMetric = [a \in {actionAccepted, actionDenied} |-> 0]
    /\ admissionErrorMetric = 0
    /\ admissionAuthorizerActionMetric =
           [n \in Names |-> [a \in {actionAccepted, actionDenied} |-> 0]]
    /\ admissionAuthorizerLatencyMetric = [n \in Names |-> [count |-> 0, sum |-> 0]]
    /\ errs = NoErrs
    /\ clock = 0
    /\ now = 0
    /\ deferred = 0
    /\ calls = [i \in DOMAIN providers |-> 0]
    /\ filterOnCalled = FALSE
    /\ outcomes = [i \in DOMAIN providers |-> NotCalled]
    /\ admitObjects = <<>>
    /\ observed = NoObservation
    /\ admitTotal = [n \in Names |-> 0]
    /\ snapshot = [total |-> [a \in {actionAccepted, actionDenied} |-> 0],
                   errors |-> 0,
                   action |-> [n \in Names |-> [a \in {actionAccepted, actionDenied} |-> 0]],
                   latency |-> [n \in Names |-> [count |-> 0, sum |-> 0]]]
    /\ requests = 0

\* ------------------------------------------------------------ actions ----
\* admit is entered with a review; handleAdmissionReview decodes the object.
\* On a decode error admit counts the error and returns it.
Receive(rv) ==
    /\ pc \in {"idle", "done"}
    /\ requests < MaxRequests
    /\ requests' = requests + 1
    /\ review' = rv
    /\ response' = NoResponse
    /\ snapshot' = [total |-> admissionTotalMetric, errors |-> admissionErrorMetric,
                    action |-> admissionAuthorizerActionMetric,
                    latency |-> admissionAuthorizerLatencyMetric]
    /\ calls' = [i \in DOMAIN providers |-> 0]
    /\ filterOnCalled' = FALSE
    /\ errs' = NoErrs
    /\ outcomes' = [i \in DOMAIN providers |-> NotCalled]
    /\ admitObjects' = <<>>
    /\ observed' = NoObservation
    /\ clock' = 0
    /\ now' = 0
    /\ deferred' = 0
    /\ LET r == getResourceForReview(rv.Kind, rv) IN
         IF r.err
         THEN /\ admissionErrorMetric' = admissionErrorMetric + 1
              /\ object' = NoObject
              /\ result' = NoResult
              /\ idx' = 0
              /\ returned' = "error"
              /\ pc' = "done"
         ELSE /\ admissionErrorMetric' = admissionErrorMetric
              /\ object' = r.object
              /\ result' = [Allowed |-> TRUE, Message |-> <<>>]
              /\ idx' = 1
              /\ returned' = "none"
              /\ pc' = "loop"
    /\ UNCHANGED <<providers, admissionTotalMetric, admissionAuthorizerActionMetric,
                   admissionAuthorizerLatencyMetric, admitTotal>>

\* the provider does not listen to this kind: continue
SkipKind ==
    /\ pc = "loop"
    /\ idx \in DOMAIN providers
    /\ KindDiffers(providers[idx], review.Kind)
    /\ filterOnCalled' = TRUE
    /\ idx' = idx + 1
    /\ UNCHANGED <<providers, pc, review, response, object, result, returned, metrics,
                   errs, clock, now, deferred, calls, outcomes, admitObjects,
                   observed, admitTotal, snapshot, requests>>

\* the provider ignores this namespace: continue
SkipNamespace ==
    /\ pc = "loop"
    /\ idx \in DOMAIN providers
    /\ ~KindDiffers(providers[idx], review.Kind)
    /\ Contained(review.Namespace, providers[idx].IgnoreNamespaces)
    /\ filterOnCalled' = TRUE
    /\ idx' = idx + 1
    /\ UNCHANGED <<providers, pc, review, response, object, result, returned, metrics,
                   errs, clock, now, deferred, calls, outcomes, admitObjects,
                   observed, admitTotal, snapshot, requests>>

\* SetNamespace, time.Now(), the defer statement (its argument is evaluated
\* here), and the call of provider.Admit
CallAdmit ==
    /\ pc = "loop"
    /\ idx \in DOMAIN providers
    /\ ~KindDiffers(providers[idx], review.Kind)
    /\ ~Contained(review.Namespace, providers[idx].IgnoreNamespaces)
    /\ filterOnCalled' = TRUE
    /\ object' = SetNamespace(object, review.Namespace)
    /\ clock' = 0
    /\ now' = clock'
    /\ deferred' = Since(clock', now')
    /\ calls' = [calls EXCEPT ![idx] = @ + 1]
    /\ admitTotal' = [admitTotal EXCEPT ![providers[idx].Name] = @ + 1]
    /\ admitObjects' = Append(admitObjects, object'.Namespace)
    /\ pc' = "admit"
    /\ UNCHANGED <<providers, review, response, idx, result, returned, metrics,
                   errs, outcomes, observed, snapshot, requests>>

\* the rest of admit once handleAdmissionReview has returned `res`: the
\* verdict is counted and review.Response is written
verdictAction(res) == IF ~res.Allowed THEN actionDenied ELSE actionAccepted
admitResponse(res) ==
    IF ~res.Allowed
    THEN [Set |-> TRUE, Allowed |-> FALSE, Code |-> StatusForbidden,
          Reason |-> "Forbidden", Status |-> "Failure", Message |-> res.Message]
    ELSE [NoResponse EXCEPT !.Set = TRUE, !.Allowed = TRUE]

\* Admit returns `list` while the clock ticks; the deferred Observe runs; the
\* violations are examined; on a refusal handleAdmissionReview returns and
\* admit writes the denial
AdmitReturns(list) ==
    /\ pc = "admit"
    /\ clock' = clock + 1
    /\ admissionAuthorizerLatencyMetric' =
           Observe(admissionAuthorizerLatencyMetric, providers[idx].Name, deferred)
    /\ observed' = [position |-> idx, value |-> deferred, start |-> now, end |-> clock']
    /\ errs' = [position |-> idx, list |-> list]
    /\ outcomes' = [outcomes EXCEPT ![idx] =
           [status |-> "returned", types |-> {list[k].Type : k \in DOMAIN list}]]
    /\ IF Len(list) > 0
       THEN /\ admissionAuthorizerActionMetric' =
                   [admissionAuthorizerActionMetric EXCEPT ![providers[idx].Name] =
                       Inc(@, actionDenied)]
            /\ IF skipme(list, providers[idx])
               THEN /\ idx' = idx + 1
                    /\ pc' = "loop"
                    /\ UNCHANGED <<result, response, returned, admissionTotalMetric>>
               ELSE /\ result' = [Allowed |-> FALSE,
                                  Message |-> Join(reasons(list), ",")]
                    /\ admissionTotalMetric' =
                           Inc(admissionTotalMetric, verdictAction(result'))
                    /\ response' = admitResponse(result')
                    /\ returned' = "nil"
                    /\ pc' = "done"
                    /\ UNCHANGED idx
       ELSE \* WithLabelValues(name, actionAccepted) without Inc()
            /\ UNCHANGED <<admissionAuthorizerActionMetric, result, response,
                           returned, admissionTotalMetric>>
            /\ idx' = idx + 1
            /\ pc' = "loop"
    /\ UNCHANGED <<providers, review, object, admissionErrorMetric, now, deferred,
                   calls, filterOnCalled, admitObjects, admitTotal, snapshot, requests>>

\* provider.Admit returns some list the provider can produce
AdmitReturn ==
    /\ pc = "admit"
    /\ \E list \in ErrorLists(providers[idx].Name) : AdmitReturns(list)

\* Admit panics: the deferred Observe runs and the panic unwinds
\* handleAdmissionReview and admit; the Recover middleware installed by New
\* catches it
AdmitPanics ==
    /\ pc = "admit"
    /\ clock' = clock + 1
    /\ admissionAuthorizerLatencyMetric' =
           Observe(admissionAuthorizerLatencyMetric, providers[idx].Name, deferred)
    /\ observed' = [position |-> idx, value |-> deferred, start |-> now, end |-> clock']
    /\ outcomes' = [outcomes EXCEPT ![idx] = [status |-> "panicked", types |-> {}]]
    /\ returned' = "panic"
    /\ pc' = "done"
    /\ UNCHANGED <<providers, review, response, object, idx, result,
                   admissionTotalMetric, admissionErrorMetric,
                   admissionAuthorizerActionMetric, errs, now, deferred, calls,
                   filterOnCalled, admitObjects, admitTotal, snapshot, requests>>

\* the range loop is exhausted: handleAdmissionReview returns result and
\* admit writes the verdict
LoopEnd ==
    /\ pc = "loop"
    /\ idx = Len(providers) + 1
    /\ admissionTotalMetric' = Inc(admissionTotalMetric, verdictAction(result))
    /\ response' = admitResponse(result)
    /\ returned' = "nil"
    /\ pc' = "done"
    /\ UNCHANGED <<providers, review, object, idx, result, admissionErrorMetric,
                   admissionAuthorizerActionMetric, admissionAuthorizerLatencyMetric,
                   errs, clock, now, deferred, probes, snapshot, requests>>

Next ==
    \/ \E rv \in Reviews : Receive(rv)
    \/ SkipKind
    \/ SkipNamespace
    \/ CallAdmit
    \/ AdmitReturn
    \/ AdmitPanics
    \/ LoopEnd

Spec == Init /\ [][Next]_vars

\* ================================================== stated properties ====
\* The vocabulary of the statements, written from the statements themselves.
Supported(kind) == kind \in {"Pod", "Namespace", "Ingress", "Service"}
Listens(i) == providers[i].Kind = review.Kind
Ignores(i) ==
    review.Namespace \in
        {providers[i].IgnoreNamespaces[k] : k \in DOMAIN providers[i].IgnoreNamespaces}
Applicable(i) == Listens(i) /\ ~Ignores(i)
Invoked(i) == outcomes[i].status = "returned"
Empty(i) == outcomes[i].types = {}
AllInternal(i) == \A t \in outcomes[i].types : t = "Internal"
Tolerated(i) == AllInternal(i) /\ providers[i].IgnoreOnFailure
Denies(i) == Invoked(i) /\ ~Empty(i) /\ ~Tolerated(i)
Last(i) == errs.position = i
Serving == pc # "idle"
Verdict == pc = "done" /\ returned = "nil"

\* "field=bad_value : detail" of every violation, in list order, comma-joined
RECURSIVE Listed(_)
Listed(list) ==
    IF list = <<>> THEN <<>>
    ELSE LET x == Head(list)
             entry == <<x.Field, "=", x.BadValue, " : ", x.Detail>>
         IN IF Len(list) = 1 THEN entry
            ELSE entry \o <<",">> \o Listed(Tail(list))

Mentions(message, name) == \E k \in DOMAIN message : message[k] = name

\* ------------------------------------------------------------------ C1 ----
\* C1: if the provider at position i is invoked and returns a violation
\* list that is not tolerated, no provider at a position j > i has Admit
\* called in that request, and the denial message is built from provider
\* i's violations only.
C1_ShortCircuit ==
    Serving =>
        \A i \in DOMAIN providers :
            Denies(i) =>
                /\ \A j \in DOMAIN providers : j > i => calls[j] = 0
                /\ (Verdict /\ ~response.Allowed) =>
                       (Last(i) /\ response.Message = Listed(errs.list))

\* ------------------------------------------------------------------ C2 ----
\* C2: a non-empty violation list is treated as accepted (the iteration
\* goes on) only if every violation is Internal and IgnoreOnFailure is
\* true; in every other case the request is denied with Allowed = false.
C2_FailClosed ==
    Serving =>
        \A i \in DOMAIN providers :
            (Invoked(i) /\ ~Empty(i)) =>
                /\ idx > i => Tolerated(i)
                /\ (~Tolerated(i) /\ pc = "done") =>
                       (response.Set /\ ~response.Allowed)

\* ------------------------------------------------------------------ C3 ----
\* C3: Admit is never called on a provider whose filter Kind differs from
\* the review's Kind or whose IgnoreNamespaces contains the review's
\* Namespace; such a provider contributes nothing to the verdict, the
\* message, or its action and latency metrics.
C3_FilterExclusion ==
    Serving =>
        \A i \in DOMAIN providers :
            (~Listens(i) \/ Ignores(i)) =>
                /\ calls[i] = 0
                /\ outcomes[i].status = "none"
                /\ ~Last(i)
                /\ ~Mentions(result.Message, providers[i].Name)
                /\ ~Mentions(response.Message, providers[i].Name)
                /\ admissionAuthorizerActionMetric[providers[i].Name] =
                       snapshot.action[providers[i].Name]
                /\ admissionAuthorizerLatencyMetric[providers[i].Name] =
                       snapshot.latency[providers[i].Name]

\* a provider is skipped for the namespace while a later one denies
C3_Witness ==
    /\ Verdict
    /\ ~response.Allowed
    /\ \E i, j \in DOMAIN providers :
          /\ i < j
          /\ Listens(i) /\ Ignores(i)
          /\ calls[i] = 0
          /\ calls[j] = 1
          /\ Mentions(response.Message, providers[j].Name)

\* ------------------------------------------------------------------ C4 ----
\* C4 as stated: every provider whose filter Kind equals the review's Kind
\* and whose IgnoreNamespaces does not contain the review's Namespace has
\* Admit invoked exactly once per request (read here of the requests that
\* end with a verdict, the reading most favourable to the statement).
C4_ExactlyOnce ==
    Verdict =>
        \A i \in DOMAIN providers : Applicable(i) => calls[i] = 1

\* C4 as amended: such a provider is invoked at most once per request; the
\* applicable providers that are invoked are the first ones in registration
\* order; all of them are invoked when the request is accepted; when the
\* request is denied, they are invoked up to and including the provider
\* whose violations make the message, and none after it; none is invoked
\* when admit returns an error.
C4_OnceUntilDenial ==
    Serving =>
        /\ \A i \in DOMAIN providers : calls[i] <= 1
        /\ returned = "error" => \A i \in DOMAIN providers : calls[i] = 0
        /\ \A i, j \in DOMAIN providers :
              (i < j /\ Applicable(i) /\ calls[j] = 1) => calls[i] = 1
        /\ (Verdict /\ response.Allowed) =>
              \A i \in DOMAIN providers : Applicable(i) => calls[i] = 1
        /\ (Verdict /\ ~response.Allowed) =>
              \E i \in DOMAIN providers :
                  /\ Applicable(i)
                  /\ calls[i] = 1
                  /\ Last(i)
                  /\ response.Message = Listed(errs.list)
                  /\ \A j \in DOMAIN providers : j > i => calls[j] = 0

\* the first provider denies and an applicable second one is never invoked
C4_Witness ==
    /\ Verdict
    /\ ~response.Allowed
    /\ \E i, j \in DOMAIN providers :
          /\ i < j
          /\ Applicable(i) /\ Applicable(j)
          /\ calls[i] = 1
          /\ calls[j] = 0

\* ------------------------------------------------------------------ C5 ----
\* C5: a review of an unsupported kind, or whose object does not decode,
\* makes admit return an error before any provider's FilterOn or Admit is
\* called: review.Response is left as it was, admission_errors_total goes
\* up by one, and neither admission_total nor any per-authorizer metric
\* changes.
C5_UnsupportedRejected ==
    (Serving /\ (~Supported(review.Kind) \/ ~review.Object.Decodes)) =>
        /\ pc = "done"
        /\ returned = "error"
        /\ response = NoResponse
        /\ ~filterOnCalled
        /\ \A i \in DOMAIN providers : calls[i] = 0 /\ outcomes[i].status = "none"
        /\ errs = NoErrs
        /\ admissionErrorMetric = snapshot.errors + 1
        /\ admissionTotalMetric = snapshot.total
        /\ admissionAuthorizerActionMetric = snapshot.action
        /\ admissionAuthorizerLatencyMetric = snapshot.latency

\* a DaemonSet review whose object decodes has been answered with an error,
\* with a provider registered that does not ignore the review's namespace
C5_Witness ==
    /\ pc = "done"
    /\ review.Kind = "DaemonSet"
    /\ review.Object.Decodes
    /\ returned = "error"
    /\ admissionErrorMetric = snapshot.errors + 1
    /\ \E i \in DOMAIN providers : ~Ignores(i)

\* ------------------------------------------------------------------ C6 ----
FirstDenier ==
    IF \E i \in DOMAIN providers : Denies(i)
    THEN CHOOSE i \in DOMAIN providers :
             Denies(i) /\ \A j \in DOMAIN providers : Denies(j) => i <= j
    ELSE 0

\* C6: for a review of a supported kind the response equals the reference
\* verdict: Allowed = true with no status when no applicable provider
\* returns a non-tolerated violation list; otherwise Allowed = false, Code
\* 403, Reason Forbidden and the message of all violations of the first
\* denying provider; exactly one of admission_total{accept} and
\* admission_total{deny} goes up, matching Allowed.
C6_ReferenceVerdict ==
    Verdict =>
        /\ response.Set
        /\ IF FirstDenier = 0
           THEN /\ response.Allowed
                /\ response.Code = 0 /\ response.Reason = "" /\ response.Message = <<>>
                /\ admissionTotalMetric =
                       [snapshot.total EXCEPT !["accept"] = @ + 1]
           ELSE /\ ~response.Allowed
                /\ response.Code = 403
                /\ response.Reason = "Forbidden"
                /\ Last(FirstDenier)
                /\ response.Message = Listed(errs.list)
                /\ admissionTotalMetric =
                       [snapshot.total EXCEPT !["deny"] = @ + 1]

\* ------------------------------------------------------------------ C7 ----
\* C7: each time an invoked provider returns an empty list its
\* action=accept counter goes up by exactly one, each time it returns a
\* non-empty list its action=deny counter goes up by exactly one; after any
\* sequence of requests accept + deny of a provider equals the number of
\* times its Admit was called.
C7_ActionCounters ==
    pc \in {"loop", "done"} =>
        /\ \A i \in DOMAIN providers :
              Invoked(i) =>
                  admissionAuthorizerActionMetric[providers[i].Name] =
                      IF Empty(i)
                      THEN [snapshot.action[providers[i].Name] EXCEPT !["accept"] = @ + 1]
                      ELSE [snapshot.action[providers[i].Name] EXCEPT !["deny"] = @ + 1]
        /\ \A n \in Names :
              admissionAuthorizerActionMetric[n]["accept"] +
              admissionAuthorizerActionMetric[n]["deny"] = admitTotal[n]

\* ------------------------------------------------------------------ C8 ----
\* C8: a panic of a provider's Admit is treated as one Internal violation:
\* with IgnoreOnFailure the iteration goes on to the next provider, without
\* it the request is denied with 403; the panic never leaves
\* handleAdmissionReview/admit and never ends the request without a verdict.
C8_PanicContained ==
    Serving =>
        \A i \in DOMAIN providers :
            outcomes[i].status = "panicked" =>
                /\ returned # "panic"
                /\ pc = "done" => response.Set
                /\ (pc = "done" /\ ~providers[i].IgnoreOnFailure) =>
                       (~response.Allowed /\ response.Code = 403)
                /\ (pc = "done" /\ providers[i].IgnoreOnFailure) => idx > i

\* ------------------------------------------------------------------ C9 ----
\* C9: the object handed to every Admit call has the namespace of
\* review.Request.Namespace whatever namespace the encoded object carries,
\* and so has the object carried in a denial verdict.
C9_NamespaceOverride ==
    Serving =>
        /\ \A k \in DOMAIN admitObjects : admitObjects[k] = review.Namespace
        /\ (Verdict /\ ~result.Allowed) =>
               object.Namespace = review.Namespace

\* a denial of an object that was encoded with another namespace
C9_Witness ==
    /\ Verdict
    /\ ~response.Allowed
    /\ review.Object.Namespace # review.Namespace
    /\ Len(admitObjects) > 0

\* ----------------------------------------------------------------- C10 ----
\* C10: every provider whose Admit is called records exactly one latency
\* observation, after Admit has returned, whose value is the time between
\* the timer start and Admit's completion; the other providers record none.
C10_LatencyObserved ==
    pc \in {"loop", "done"} =>
        /\ observed.position # 0 => observed.value = observed.end - observed.start
        /\ \A i \in DOMAIN providers :
              /\ calls[i] = 0 => observed.position # i
              /\ admissionAuthorizerLatencyMetric[providers[i].Name].count =
                     snapshot.latency[providers[i].Name].count + calls[i]

====
